---- MODULE Spec2Model ----
(***************************************************************************)
(* The gateway session of projects/ackerman-qqbot/src/wss/mod.rs:          *)
(* QQBotWebsocket with its three operations next_event, send_heartbeat and *)
(* send_identify, the serde codec of QQBotOperation, and the Subscription  *)
(* bit flags of wss/subscription_mask.rs.                                  *)
(*                                                                         *)
(* A JSON text is a record whose fields are the keys present in the text.  *)
(* The value under "d" is a record with exactly one field, named after its *)
(* JSON type: [obj |-> r], [bool |-> b], [int |-> i], [str |-> s].         *)
(***************************************************************************)
EXTENDS Integers, Sequences, FiniteSets, TLC

VARIABLES
    closed,              \* QQBotWebsocket.closed
    heartbeat_interval,  \* QQBotWebsocket.heartbeat_interval
    streamEnded,         \* wss: the inbound stream has yielded None
    sent,                \* wss: the JSON texts written to the sink, in order
    wssCalls,            \* wss: how often next() and send() were invoked
    protocols,           \* stdout: the opcodes of the "协议 {op}" lines, in order
    logins,              \* stdout: the usernames of the "鉴权成功, 登陆为" lines
    result,              \* what the last call returned: Ok, Err or Panic
    lastCall,            \* the operation that ran last
    lastItem,            \* the item the last next_event got from wss.next()
    returned,            \* the value inside the Ok(..) of the last call: <<>> is ()
    last_s,              \* wss: the s of the last dispatch envelope decoded, -1 if none
    hostAt,              \* the host's loop: at the test of closed, or at the call
    now,                 \* the clock Utc::now() reads, in ms since link returned
    calledAt,            \* the clock when the last call was made
    heartbeatAt,         \* the clock when the last heartbeat text was written
    selected,            \* Subscription: the flags united so far
    bits,                \* Subscription: the u32 of their union
    stage,               \* codec: built, encoded, received or decoded
    envelope,            \* codec: the QQBotOperation a send operation built
    wire,                \* codec: the JSON text encoded or received
    decoded              \* codec: what from_str made of the text

sessionVars == <<closed, heartbeat_interval, streamEnded, sent, wssCalls, protocols,
                 logins, result, lastCall, lastItem, returned, last_s, calledAt,
                 heartbeatAt, hostAt>>

maskVars == <<selected, bits>>

codecVars == <<stage, envelope, wire, decoded>>

vars == <<sessionVars, now, maskVars, codecVars>>

\* The number of calls on the connection a run of the model makes.
MaxCalls == 4

\* The number of times the clock advances in a run of the timed model.
MaxTicks == 2

\* The ms by which the clock advances at once: more than any interval in use.
TickMs == 50000

----------------------------------------------------------------------------
(* subscription_mask.rs: the Subscription flags, and | on u32.             *)

RECURSIVE BitOr(_, _)
BitOr(a, b) ==
    IF a = 0 THEN b
    ELSE IF b = 0 THEN a
    ELSE (IF a % 2 = 1 \/ b % 2 = 1 THEN 1 ELSE 0) + 2 * BitOr(a \div 2, b \div 2)

\* 1 << n, n below 31 in every use (no bit is shifted out of the u32)
Shl1(n) == 2 ^ n

GUILDS == Shl1(0)
GUILD_MEMBERS == Shl1(1)
GUILD_MESSAGES == Shl1(9)
GUILD_MESSAGE_REACTIONS == Shl1(10)
DIRECT_MESSAGE == Shl1(12)
\* INTERACTION on the bit of MESSAGE_AUDIT
INTERACTION_at_27 == Shl1(27)

INTERACTION == Shl1(26)
MESSAGE_AUDIT == Shl1(27)
FORUMS_EVENT == Shl1(28)
AUDIO_ACTION == Shl1(29)
PUBLIC_GUILD_MESSAGES == Shl1(30)

----------------------------------------------------------------------------
(* The serde codec of QQBotOperation.                                      *)

\* <User as Default>::default(), derived
UserDefault == [id |-> "", username |-> "", bot |-> FALSE]

\* the value #[serde(default)] gives a missing u32 field: <u32 as Default>
U32Default == 0

\* impl Default for QQBotOperationDispatch
DispatchDefault ==
    [token |-> "", intents |-> 0, shard |-> <<>>, heartbeat_interval |-> 40000,
     version |-> 0, session_id |-> "", user |-> UserDefault]

\* a field with #[serde(default)]: the carried value, or the field type's default
Field(o, name, default) == IF name \in DOMAIN o THEN o[name] ELSE default

\* User has no defaulted field: id, username and bot must all be present
UserDecodes(u) == {"id", "username", "bot"} \subseteq DOMAIN u

\* Deserialize for QQBotOperationDispatch, from a JSON object (unknown keys ignored)
DispatchDecodes(o) == "user" \in DOMAIN o => UserDecodes(o.user)

\* DecodeDispatch with the field shard never read
DecodeDispatch_without_shard(o) ==
    [token |-> Field(o, "token", ""),
     intents |-> Field(o, "intents", U32Default),
     shard |-> <<>>,
     heartbeat_interval |-> Field(o, "heartbeat_interval", U32Default),
     version |-> Field(o, "version", 0),
     session_id |-> Field(o, "session_id", ""),
     user |-> IF "user" \in DOMAIN o
              THEN [id |-> o.user.id, username |-> o.user.username, bot |-> o.user.bot]
              ELSE UserDefault]

DecodeDispatch(o) ==
    [token |-> Field(o, "token", ""),
     intents |-> Field(o, "intents", U32Default),
     shard |-> Field(o, "shard", <<>>),
     heartbeat_interval |-> Field(o, "heartbeat_interval", U32Default),
     version |-> Field(o, "version", 0),
     session_id |-> Field(o, "session_id", ""),
     user |-> IF "user" \in DOMAIN o
              THEN [id |-> o.user.id, username |-> o.user.username, bot |-> o.user.bot]
              ELSE UserDefault]

\* Deserialize for the untagged QQBotOperationUnion: Dispatch, then Boolean, then Integer
UnionDecodes(d) ==
    \/ "obj" \in DOMAIN d /\ DispatchDecodes(d.obj)
    \/ "bool" \in DOMAIN d
    \/ "int" \in DOMAIN d

\* DecodeUnion with a boolean payload taken by the integer variant
DecodeUnion_bool_as_integer(d) ==
    IF "obj" \in DOMAIN d /\ DispatchDecodes(d.obj)
    THEN [Dispatch |-> DecodeDispatch(d.obj)]
    ELSE IF "bool" \in DOMAIN d THEN [Integer |-> IF d.bool THEN 1 ELSE 0]
    ELSE [Integer |-> d.int]

DecodeUnion(d) ==
    IF "obj" \in DOMAIN d /\ DispatchDecodes(d.obj)
    THEN [Dispatch |-> DecodeDispatch(d.obj)]
    ELSE IF "bool" \in DOMAIN d THEN [Boolean |-> d.bool]
    ELSE [Integer |-> d.int]

\* serde_json::from_str::<QQBotOperation>: op and d are required, s and t default
from_str_ok(text) ==
    /\ "op" \in DOMAIN text
    /\ "d" \in DOMAIN text
    /\ UnionDecodes(text.d)

from_str(text) ==
    [op |-> text.op,
     s |-> Field(text, "s", U32Default),
     t |-> Field(text, "t", ""),
     d |-> DecodeUnion(text.d)]

\* Serialize for QQBotOperationUnion (untagged) and QQBotOperation: every field is written
EncodeUnion(d) ==
    IF "Dispatch" \in DOMAIN d THEN [obj |-> d.Dispatch]
    ELSE IF "Boolean" \in DOMAIN d THEN [bool |-> d.Boolean]
    ELSE [int |-> d.Integer]

to_string(protocol) ==
    [op |-> protocol.op, s |-> protocol.s, t |-> protocol.t, d |-> EncodeUnion(protocol.d)]

\* QQBotOperation::dispatched. The match has no arm for Integer; the model lets
\* the missing arm be either of the two ways out of the match: the default body
\* (as for Boolean) or a panic.
dispatched(op) ==
    IF "Dispatch" \in DOMAIN op.d THEN {[ok |-> TRUE, body |-> op.d.Dispatch]}
    ELSE IF "Boolean" \in DOMAIN op.d THEN {[ok |-> TRUE, body |-> DispatchDefault]}
    ELSE {[ok |-> TRUE, body |-> DispatchDefault], [ok |-> FALSE, body |-> DispatchDefault]}

----------------------------------------------------------------------------
(* What the connection can yield to wss.next(): the inputs of next_event.  *)

UserBot1 == [id |-> "u1", username |-> "bot1", bot |-> TRUE]

Texts ==
    { [op |-> 10, d |-> [obj |-> [heartbeat_interval |-> 45000]]],
      [op |-> 10, d |-> [obj |-> [heartbeat_interval |-> 30000]]],
      [op |-> 10, d |-> [obj |-> [version |-> 1]]],
      [op |-> 10, d |-> [bool |-> TRUE]],
      [op |-> 10, d |-> [int |-> 100]],
      [op |-> 0, s |-> 1, t |-> "READY",
       d |-> [obj |-> [version |-> 1, session_id |-> "sid", user |-> UserBot1]]],
      [op |-> 0, s |-> 2, t |-> "AT_MESSAGE_CREATE", d |-> [obj |-> [version |-> 1]]],
      [op |-> 0, s |-> 1, t |-> "READY", d |-> [obj |-> [user |-> [username |-> "bot1"]]]],
      [op |-> 9, d |-> [bool |-> FALSE]],
      [op |-> 11, d |-> [int |-> 0]],
      [op |-> 11],
      [op |-> 255, d |-> [int |-> 0]],
      [op |-> 1, d |-> [int |-> 100]],
      [op |-> 7, d |-> [str |-> "x"]],
      [t |-> "not an envelope"] }

\* Option<Result<Message, Error>>, the item of the stream
Items ==
    {[kind |-> "None"], [kind |-> "Err"], [kind |-> "Close"],
     [kind |-> "Binary"], [kind |-> "Ping"], [kind |-> "Pong"]}
    \cup {[kind |-> "Text", text |-> x] : x \in Texts}

\* a stream that has ended yields None from then on
ItemsOf(ended) == IF ended THEN {[kind |-> "None"]} ELSE Items

----------------------------------------------------------------------------
(* QQBotWebsocket. self is the pair of fields the operations write.        *)

\* QQBotWebsocket::link, the Ok(Self { .. }) it returns
link == [closed |-> FALSE, heartbeat_interval |-> 40000]

\* next_event and the send operations return AckermanResult: Ok(()) at lines
\* 144, 149, 170, 177 and 196
unit == <<>>

\* what one call leaves behind: the fields, the return value, and the
\* "协议" and "登陆为" lines it printed
Outcome(self, res, ops, names) ==
    [self |-> self, result |-> res, value |-> unit, protocol |-> ops, login |-> names]

\* on_close as a flag that is flipped instead of set
on_close_toggles(self) == [self EXCEPT !.closed = ~self.closed]

\* on_close with the assignment to self.closed left out
on_close_only_logs(self) == self

\* next_event, the arm Message::Close(_)
on_close(self) == [self EXCEPT !.closed = TRUE]

\* on_dispatch taking the interval of the body, as the hello arm does
on_dispatch_takes_interval(self, body) ==
    [self EXCEPT !.heartbeat_interval = body.heartbeat_interval]

\* next_event, the arm 0 of match op.op
on_dispatch(self, body) == self

\* next_event, the arm 9
on_invalid(self) == self

\* on_hello with the assignment to self.heartbeat_interval left out
on_hello_keeps(self, body) == self

\* next_event, the arm 10
on_hello(self, body) == [self EXCEPT !.heartbeat_interval = body.heartbeat_interval]

\* next_event, the arm 11
on_ack(self) == self

\* on_unknown treating an unknown opcode as the end of the session
on_unknown_closes(self) == [self EXCEPT !.closed = TRUE]

\* next_event, the arm _
on_unknown(self) == self

\* next_event from the println of the opcode on: match op.op { .. } and Ok(())
match_op(self, op) ==
    IF op.op = 0 THEN
        { IF r.ok THEN Outcome(on_dispatch(self, r.body), "Ok", <<0>>, <<r.body.user.username>>)
                  ELSE Outcome(self, "Panic", <<0>>, <<>>) : r \in dispatched(op) }
    ELSE IF op.op = 9 THEN {Outcome(on_invalid(self), "Ok", <<9>>, <<>>)}
    ELSE IF op.op = 10 THEN
        { IF r.ok THEN Outcome(on_hello(self, r.body), "Ok", <<10>>, <<>>)
                  ELSE Outcome(self, "Panic", <<10>>, <<>>) : r \in dispatched(op) }
    ELSE IF op.op = 11 THEN {Outcome(on_ack(self), "Ok", <<11>>, <<>>)}
    ELSE {Outcome(on_unknown(self), "Ok", <<op.op>>, <<>>)}

\* question_mark with the error dropped and the step going on to Ok(())
question_mark_swallows(self) == Outcome(self, "Ok", <<>>, <<>>)

\* next_event, the ? of `s?` and of `from_str(&s)?`: return the error, self untouched
question_mark(self) == Outcome(self, "Err", <<>>, <<>>)

\* next_event, the arm `_ => unreachable!(..)` a binary, ping or pong frame reaches
unreachable(self) == Outcome(self, "Panic", <<>>, <<>>)

\* next_event, for the item wss.next() yields
next_event(self, item) ==
    IF item.kind = "None" THEN {Outcome(self, "Ok", <<>>, <<>>)}
    ELSE IF item.kind = "Err" THEN {question_mark(self)}
    ELSE IF item.kind = "Text" THEN
        IF from_str_ok(item.text) THEN match_op(self, from_str(item.text))
        ELSE {question_mark(self)}
    ELSE IF item.kind = "Close" THEN {Outcome(on_close(self), "Ok", <<>>, <<>>)}
    ELSE {unreachable(self)}

\* self.key.bot_token()
bot_token == "Bot token"

\* identify_intents with the 1 << 10 term left out
identify_intents_without_reactions == BitOr(BitOr(Shl1(9), Shl1(26)), Shl1(30))

\* send_identify: let intents = 1 << 9 | 1 << 10 | 1 << 26 | 1 << 30
identify_intents == BitOr(BitOr(BitOr(Shl1(9), Shl1(10)), Shl1(26)), Shl1(30))

\* send_identify: vec![0, 1]
identify_shard == <<0, 1>>

\* send_heartbeat: the QQBotOperation it builds
heartbeat_protocol == [op |-> 1, s |-> 0, t |-> "", d |-> [Integer |-> 100]]

\* send_identify: the QQBotOperation it builds
identify_protocol ==
    [op |-> 2, s |-> 0, t |-> "",
     d |-> [Dispatch |-> [DispatchDefault EXCEPT !.token = bot_token,
                                                 !.intents = identify_intents,
                                                 !.shard = identify_shard]]]

\* written_by_next_event with the heartbeat sent from inside the step
written_by_next_event_heartbeat(self, item) == <<to_string(heartbeat_protocol)>>

\* next_event: the texts it hands to self.wss.send; it has no call of send
written_by_next_event(self, item) == <<>>

Self == [closed |-> closed, heartbeat_interval |-> heartbeat_interval]

Running == result # "Panic" /\ wssCalls.next + wssCalls.send < MaxCalls

\* no flag united yet
MaskIdle == selected = {} /\ bits = 0

\* nothing handed to the codec
CodecIdle == stage = "idle" /\ envelope = unit /\ wire = unit /\ decoded = unit

\* the session as link returns it
SessionInit ==
    /\ closed = link.closed
    /\ heartbeat_interval = link.heartbeat_interval
    /\ streamEnded = FALSE
    /\ sent = <<>>
    /\ wssCalls = [next |-> 0, send |-> 0]
    /\ protocols = <<>>
    /\ logins = <<>>
    /\ result = "Ok"
    /\ lastCall = "link"
    /\ lastItem = [kind |-> "None"]
    /\ returned = unit
    /\ last_s = -1
    /\ hostAt = "test"
    /\ now = 0
    /\ calledAt = 0
    /\ heartbeatAt = 0

Init == SessionInit /\ MaskIdle /\ CodecIdle

\* the s of the envelope, when the item is a text that decodes to a dispatch
SeqAfter(item, before) ==
    IF item.kind = "Text" /\ from_str_ok(item.text) /\ from_str(item.text).op = 0
    THEN from_str(item.text).s
    ELSE before

\* one call of next_event on a connection that yields one of items; n is the
\* count of next() calls after it
Await(items, n) ==
    /\ \E item \in items : \E o \in next_event(Self, item) :
        /\ closed' = o.self.closed
        /\ heartbeat_interval' = o.self.heartbeat_interval
        /\ streamEnded' = (streamEnded \/ item.kind = "None")
        /\ protocols' = protocols \o o.protocol
        /\ logins' = logins \o o.login
        /\ result' = o.result
        /\ returned' = o.value
        /\ lastItem' = item
        /\ last_s' = SeqAfter(item, last_s)
        /\ sent' = sent \o written_by_next_event(Self, item)
    /\ wssCalls' = [wssCalls EXCEPT !.next = n]
    /\ lastCall' = "next_event"
    /\ calledAt' = now
    /\ UNCHANGED <<heartbeatAt, now, maskVars, codecVars>>

NextEvent ==
    /\ Running
    /\ Await(ItemsOf(streamEnded), wssCalls.next + 1)
    /\ UNCHANGED hostAt

\* send_heartbeat: print "协议 1", build, encode, self.wss.send(..).await?
SendHeartbeat ==
    /\ Running
    /\ \E ok \in BOOLEAN :
        /\ sent' = IF ok THEN Append(sent, to_string(heartbeat_protocol)) ELSE sent
        /\ result' = IF ok THEN "Ok" ELSE "Err"
        /\ heartbeatAt' = IF ok THEN now ELSE heartbeatAt
    /\ returned' = unit
    /\ wssCalls' = [wssCalls EXCEPT !.send = @ + 1]
    /\ protocols' = Append(protocols, heartbeat_protocol.op)
    /\ lastCall' = "send_heartbeat"
    /\ calledAt' = now
    /\ UNCHANGED <<closed, heartbeat_interval, streamEnded, logins, lastItem, last_s,
                   hostAt, now, maskVars, codecVars>>

\* send_identify: print "协议 2", build, encode, self.wss.send(..).await?
SendIdentify ==
    /\ Running
    /\ \E ok \in BOOLEAN :
        /\ sent' = IF ok THEN Append(sent, to_string(identify_protocol)) ELSE sent
        /\ result' = IF ok THEN "Ok" ELSE "Err"
    /\ returned' = unit
    /\ wssCalls' = [wssCalls EXCEPT !.send = @ + 1]
    /\ protocols' = Append(protocols, identify_protocol.op)
    /\ lastCall' = "send_identify"
    /\ calledAt' = now
    /\ UNCHANGED <<closed, heartbeat_interval, streamEnded, logins, lastItem, last_s,
                   heartbeatAt, hostAt, now, maskVars, codecVars>>

Next == NextEvent \/ SendHeartbeat \/ SendIdentify

Spec == Init /\ [][Next]_vars

----------------------------------------------------------------------------
(* The session with the clock running: time passes while a call awaits.    *)

\* the items of the timed runs: a hello, a heartbeat ack, an unknown opcode
TimedItems ==
    {[kind |-> "Text", text |-> x] :
        x \in { [op |-> 10, d |-> [obj |-> [heartbeat_interval |-> 45000]]],
                [op |-> 11, d |-> [int |-> 0]],
                [op |-> 255, d |-> [int |-> 0]] }}

\* Utc::now() moves on
Tick ==
    /\ Running
    /\ now < MaxTicks * TickMs
    /\ now' = now + TickMs
    /\ UNCHANGED <<sessionVars, maskVars, codecVars>>

TimedNextEvent ==
    /\ Running
    /\ Await(ItemsOf(streamEnded) \cap TimedItems, wssCalls.next + 1)
    /\ UNCHANGED hostAt

NextTimed == Tick \/ TimedNextEvent \/ SendHeartbeat \/ SendIdentify

SpecTimed == Init /\ [][NextTimed]_vars

----------------------------------------------------------------------------
(* Subscription as a set of flags: the union bitflags! generates.          *)

Categories ==
    {"GUILDS", "GUILD_MEMBERS", "GUILD_MESSAGES", "GUILD_MESSAGE_REACTIONS",
     "DIRECT_MESSAGE", "INTERACTION", "MESSAGE_AUDIT", "FORUMS_EVENT",
     "AUDIO_ACTION", "PUBLIC_GUILD_MESSAGES"}

\* Subscription::<name>.bits()
Value(c) ==
    CASE c = "GUILDS" -> GUILDS
      [] c = "GUILD_MEMBERS" -> GUILD_MEMBERS
      [] c = "GUILD_MESSAGES" -> GUILD_MESSAGES
      [] c = "GUILD_MESSAGE_REACTIONS" -> GUILD_MESSAGE_REACTIONS
      [] c = "DIRECT_MESSAGE" -> DIRECT_MESSAGE
      [] c = "INTERACTION" -> INTERACTION
      [] c = "MESSAGE_AUDIT" -> MESSAGE_AUDIT
      [] c = "FORUMS_EVENT" -> FORUMS_EVENT
      [] c = "AUDIO_ACTION" -> AUDIO_ACTION
      [] c = "PUBLIC_GUILD_MESSAGES" -> PUBLIC_GUILD_MESSAGES

\* mask | Subscription::c, for a flag not yet in the mask
Union ==
    \E c \in Categories \ selected :
        /\ selected' = selected \cup {c}
        /\ bits' = BitOr(bits, Value(c))
        /\ UNCHANGED <<sessionVars, now, codecVars>>

SpecMask == Init /\ [][Union]_vars

----------------------------------------------------------------------------
(* The host's loop: while !closed { next_event().await? }. A stream yields *)
(* at most MaxCalls frames before it ends; the loop goes on calling.       *)

Min(a, b) == IF a < b THEN a ELSE b

\* what the stream can yield to the call after n earlier ones
HostItems(n) == IF n >= MaxCalls THEN {[kind |-> "None"]} ELSE ItemsOf(streamEnded)

\* the head of the loop: closed is false (and ? has let the last result pass)
HostTest ==
    /\ hostAt = "test"
    /\ ~closed
    /\ result = "Ok"
    /\ hostAt' = "call"
    /\ UNCHANGED <<closed, heartbeat_interval, streamEnded, sent, wssCalls, protocols,
                   logins, result, lastCall, lastItem, returned, last_s, calledAt,
                   heartbeatAt, now, maskVars, codecVars>>

\* the body of the loop: next_event().await
HostCall ==
    /\ hostAt = "call"
    /\ Await(HostItems(wssCalls.next), Min(wssCalls.next + 1, MaxCalls))
    /\ hostAt' = "test"

HostLoop == HostTest \/ HostCall

SpecHost == Init /\ [][HostLoop]_vars /\ WF_vars(HostLoop)

----------------------------------------------------------------------------
(* The codec alone: to_string on what the session builds, from_str on what *)
(* a text frame can carry.                                                 *)

\* the JSON values of the key "d": objects, booleans, integers, a string, null
Payloads ==
    { [obj |-> [heartbeat_interval |-> 45000]],
      [obj |-> [heartbeat_interval |-> 30000]],
      [obj |-> [version |-> 1]],
      [obj |-> [version |-> 1, session_id |-> "sid", user |-> UserBot1]],
      [obj |-> [user |-> [username |-> "bot1"]]],
      [bool |-> TRUE], [bool |-> FALSE],
      [int |-> 100], [int |-> 0], [int |-> -1],
      [str |-> "x"],
      [null |-> TRUE] }

Opcodes == {0, 1, 9, 10, 11}

\* the JSON objects a text frame can carry: d present or not, s present or not
WireTexts ==
    {[op |-> o, d |-> d] : o \in Opcodes, d \in Payloads}
    \cup {[op |-> o, s |-> 1, t |-> "READY", d |-> d] : o \in Opcodes, d \in Payloads}
    \cup {[op |-> o] : o \in Opcodes}

\* send_heartbeat and send_identify: let protocol = QQBotOperation { .. }
Build ==
    /\ stage = "idle"
    /\ \E protocol \in {heartbeat_protocol, identify_protocol} : envelope' = protocol
    /\ stage' = "built"
    /\ UNCHANGED <<wire, decoded, sessionVars, now, maskVars>>

\* to_string(&protocol)?
Encode ==
    /\ stage = "built"
    /\ wire' = to_string(envelope)
    /\ stage' = "encoded"
    /\ UNCHANGED <<envelope, decoded, sessionVars, now, maskVars>>

\* next_event: Some(Ok(Message::Text(s)))
Receive ==
    /\ stage = "idle"
    /\ \E s \in WireTexts : wire' = s
    /\ stage' = "received"
    /\ UNCHANGED <<envelope, decoded, sessionVars, now, maskVars>>

\* from_str::<QQBotOperation>(&s)
Decode ==
    /\ stage \in {"encoded", "received"}
    /\ decoded' = IF from_str_ok(wire)
                  THEN [ok |-> TRUE, value |-> from_str(wire)]
                  ELSE [ok |-> FALSE, value |-> unit]
    /\ stage' = IF stage = "encoded" THEN "roundtrip" ELSE "decoded"
    /\ UNCHANGED <<envelope, wire, sessionVars, now, maskVars>>

NextCodec == Build \/ Encode \/ Receive \/ Decode

SpecCodec == Init /\ [][NextCodec]_vars

----------------------------------------------------------------------------
(* Vocabulary of the properties.                                           *)

Range(q) == {q[i] : i \in DOMAIN q}

\* this step is a next_event that got an item of the given kind
Received(kind) == wssCalls'.next = wssCalls.next + 1 /\ lastItem'.kind = kind

\* this step is a next_event that decoded an envelope with opcode n
Decoded(n) ==
    /\ Received("Text")
    /\ from_str_ok(lastItem'.text)
    /\ lastItem'.text.op = n

\* this step is a next_event that decoded an envelope with an opcode that has no arm
DecodedUnknown ==
    /\ Received("Text")
    /\ from_str_ok(lastItem'.text)
    /\ lastItem'.text.op \notin {0, 9, 10, 11}

\* this step is a next_event that decoded an envelope and ran its arm to Ok(())
Handled(n) == Decoded(n) /\ result' = "Ok"

\* the step wrote one more text to the sink, with opcode n
Wrote(n) == Len(sent') = Len(sent) + 1 /\ sent'[Len(sent')].op = n

\* the JSON text carries d.heartbeat_interval
CarriesInterval(text) ==
    /\ "d" \in DOMAIN text
    /\ "obj" \in DOMAIN text.d
    /\ "heartbeat_interval" \in DOMAIN text.d.obj

\* the JSON text carries a structured d without heartbeat_interval
StructuredWithoutInterval(text) ==
    /\ "d" \in DOMAIN text
    /\ "obj" \in DOMAIN text.d
    /\ "heartbeat_interval" \notin DOMAIN text.d.obj

\* the JSON text carries d.user
CarriesUser(text) ==
    /\ "d" \in DOMAIN text
    /\ "obj" \in DOMAIN text.d
    /\ "user" \in DOMAIN text.d.obj

\* the identify texts among those written, in order
IdentifyFrames == SelectSeq(sent, LAMBDA f : f.op = 2)

\* the last call was a next_event that decoded the given opcode and returned Ok(())
LastHandled(n) ==
    /\ lastCall = "next_event"
    /\ lastItem.kind = "Text"
    /\ from_str_ok(lastItem.text)
    /\ lastItem.text.op = n
    /\ result = "Ok"

----------------------------------------------------------------------------
(* C1: closed is false when link returns the session, and no step of       *)
(* next_event, send_heartbeat or send_identify, whatever the connection    *)
(* yields, takes it from true back to false.                               *)
C1_ClosedMonotonic == ~closed /\ [][closed => closed']_vars

\* the session was closed by a close frame and went on to handle an envelope
C1_Witness ==
    /\ closed
    /\ lastCall = "next_event"
    /\ lastItem.kind = "Text"
    /\ result = "Ok"
    /\ protocols # <<>>

(* C2: a next_event that gets a close frame while closed is false (before  *)
(* hello, after hello, after identify, after the login line) sets closed   *)
(* and returns Ok.                                                         *)
C2_CloseFrameCloses ==
    [][(~closed /\ Received("Close")) => (closed' /\ result' = "Ok")]_vars

\* a close frame taken after hello, identify and the login line
C2_Witness ==
    /\ closed
    /\ lastCall = "next_event"
    /\ lastItem.kind = "Close"
    /\ result = "Ok"
    /\ protocols = <<10, 2, 0>>
    /\ logins = <<"bot1">>
    /\ Len(sent) = 1

C4_Original == [][closed => (wssCalls' = wssCalls /\ sent' = sent)]_vars

(* C5, as claimed: the step that handles opcode 9 after an identify was    *)
(* written sets closed, and no identify is written after it.               *)
C5_Original ==
    [][/\ (Handled(9) /\ IdentifyFrames # <<>>) => closed'
       /\ (9 \in Range(protocols) /\ IdentifyFrames # <<>>) => ~Wrote(2)]_vars

(* C6: a step that decodes an envelope whose opcode is none of 0, 9, 10,   *)
(* 11 returns Ok and leaves closed and the heartbeat interval as they were. *)
C6_UnknownOpcodeIgnored ==
    [][DecodedUnknown => /\ result' = "Ok"
                         /\ closed' = closed
                         /\ heartbeat_interval' = heartbeat_interval]_vars

\* opcode 255 handled on a session that had negotiated an interval
C6_Witness ==
    /\ LastHandled(255)
    /\ heartbeat_interval = 45000
    /\ ~closed
    /\ protocols = <<10, 2, 255>>

(* C7: the interval is 40000 as long as no hello envelope was decoded, and *)
(* the only step that changes it is one that handles opcode 10.            *)
C7_IntervalWrittenByHelloOnly ==
    /\ heartbeat_interval = 40000
    /\ [](10 \notin Range(protocols) => heartbeat_interval = 40000)
    /\ [][heartbeat_interval' # heartbeat_interval => Handled(10)]_vars

\* no hello so far, but a dispatch, a heartbeat and a close frame
C7_Witness ==
    /\ 10 \notin Range(protocols)
    /\ 0 \in Range(protocols)
    /\ 1 \in Range(protocols)
    /\ sent # <<>>
    /\ closed
    /\ heartbeat_interval = 40000

(* C8, as claimed: the interval is never zero, and after a hello envelope  *)
(* with a structured payload that has no heartbeat_interval the session's  *)
(* interval is 40000.                                                      *)
C8_Original ==
    /\ heartbeat_interval # 0
    /\ (LastHandled(10) /\ StructuredWithoutInterval(lastItem.text))
         => heartbeat_interval = 40000

\* the handshake: a hello decoded, send_identify called, a READY dispatch decoded,
\* and no send failed
HandshakeScenario ==
    /\ protocols = <<10, 2, 0>>
    /\ logins = <<"bot1">>
    /\ Len(sent) = wssCalls.send

C10_Original ==
    [][/\ logins' # logins => (Handled(0) /\ CarriesUser(lastItem'.text))
       /\ logins # <<>> => logins' = logins]_vars

(* C11, as claimed: a next_event that gets a binary, ping or pong frame    *)
(* returns an error value; it does not panic.                              *)
C11_Original ==
    (lastCall = "next_event" /\ lastItem.kind \in {"Binary", "Ping", "Pong"})
        => result = "Err"

\* this step is a next_event that got a transport error or a text from_str rejects
FailedToReceive ==
    \/ Received("Err")
    \/ Received("Text") /\ ~from_str_ok(lastItem'.text)

NextEventStep == wssCalls'.next = wssCalls.next + 1

\* this step is a call of send_heartbeat
SendHeartbeatStep == wssCalls'.send = wssCalls.send + 1 /\ lastCall' = "send_heartbeat"

\* the heartbeat texts among those written, in order
HeartbeatFrames == SelectSeq(sent, LAMBDA f : f.op = 1)

MissedWindow ==
    /\ HeartbeatFrames # <<>>
    /\ Len(HeartbeatFrames) = Len(SelectSeq(protocols, LAMBDA n : n = 1))
    /\ \E i \in DOMAIN protocols :
        /\ protocols[i] = 1
        /\ \A j \in DOMAIN protocols : j > i => protocols[j] \notin {1, 11}
    /\ now - heartbeatAt > 2 * heartbeat_interval

\* the failure has been reported: a call returned an error or the session closed
Alarm == result # "Ok" \/ closed

(* C14, as claimed: when a heartbeat was written and more than twice the   *)
(* interval passes with no opcode 11 decoded, the liveness failure is      *)
(* reported once: by the first next_event after that, if not before.       *)
C14_Original == [][(MissedWindow /\ NextEventStep) => (Alarm \/ Alarm')]_vars

(* C15, as claimed: every heartbeat text written has op 1 and an integer d *)
(* that is the s of the last dispatch envelope decoded, once there is one. *)
C15_Original ==
    [][Wrote(1) =>
         /\ DOMAIN sent'[Len(sent')].d = {"int"}
         /\ last_s # -1 => sent'[Len(sent')].d.int = last_s]_vars

(* C16, as claimed: a next_event that handles a dispatch envelope after    *)
(* the login line hands the caller the event type and the structured       *)
(* payload; one that handles opcode 9, 10 or 11 hands it no event.         *)
C16_Original ==
    [][/\ (Handled(0) /\ logins # <<>>)
            => returned' = <<from_str(lastItem'.text).t, from_str(lastItem'.text).d>>
       /\ (Handled(9) \/ Handled(10) \/ Handled(11)) => returned' = unit]_vars

\* the bit position the claim gives each category
ClaimedPosition(c) ==
    CASE c = "GUILDS" -> 0
      [] c = "GUILD_MEMBERS" -> 1
      [] c = "GUILD_MESSAGES" -> 9
      [] c = "GUILD_MESSAGE_REACTIONS" -> 10
      [] c = "DIRECT_MESSAGE" -> 12
      [] c = "INTERACTION" -> 26
      [] c = "MESSAGE_AUDIT" -> 27
      [] c = "FORUMS_EVENT" -> 28
      [] c = "AUDIO_ACTION" -> 29
      [] c = "PUBLIC_GUILD_MESSAGES" -> 30

\* bit n of the mask m is set
BitSet(m, n) == (m \div 2^n) % 2 = 1

\* the mask is the OR of single bits: exactly the claimed positions of the
\* selected categories are set
OrOfClaimedBits ==
    \A n \in 0..30 : BitSet(bits, n) <=> \E c \in selected : ClaimedPosition(c) = n

ThreeCategories == {"GUILD_MESSAGES", "PUBLIC_GUILD_MESSAGES", "INTERACTION"}

(* C17, as claimed: the mask of {GUILD_MESSAGES, PUBLIC_GUILD_MESSAGES,    *)
(* INTERACTION} is (1<<9)|(1<<26)|(1<<30) and is 0x40000200; the mask of   *)
(* any subset is the OR of the bits at 0, 1, 9, 10, 12, 26, 27, 28, 29, 30 *)
(* of its categories.                                                      *)
C17_Original ==
    /\ selected = ThreeCategories =>
         /\ bits = BitOr(BitOr(Shl1(9), Shl1(26)), Shl1(30))
         /\ bits = 4 * 16^7 + 2 * 16^2
    /\ OrOfClaimedBits

(* C17, amended: the mask of {GUILD_MESSAGES, PUBLIC_GUILD_MESSAGES,       *)
(* INTERACTION} is (1<<9)|(1<<26)|(1<<30) and is 0x44000200; the mask of   *)
(* any subset is the OR of the bits at 0, 1, 9, 10, 12, 26, 27, 28, 29, 30 *)
(* of its categories.                                                      *)
C17_MaskIsOrOfBits ==
    /\ selected = ThreeCategories =>
         /\ bits = BitOr(BitOr(Shl1(9), Shl1(26)), Shl1(30))
         /\ bits = 4 * 16^7 + 4 * 16^6 + 2 * 16^2
    /\ OrOfClaimedBits

\* the three categories united
C17_Witness == selected = ThreeCategories /\ bits = 2^9 + 2^26 + 2^30

\* the payload of the decoded text is of the JSON type ty
PayloadIs(ty) == "d" \in DOMAIN wire /\ ty \in DOMAIN wire.d

\* the variant the decoding chose
Variant == DOMAIN decoded.value.d

(* C18: decoding the payload takes the first matching variant of           *)
(* structured body, boolean, integer: an object gives the structured       *)
(* variant with the heartbeat_interval it carries (45000 for the hello     *)
(* example), 100 gives the integer variant, true gives the boolean         *)
(* variant, and a payload matching none of the three fails to decode.      *)
C18_VariantByPayload ==
    stage = "decoded" =>
        /\ (PayloadIs("obj") /\ DispatchDecodes(wire.d.obj)) =>
             /\ decoded.ok
             /\ Variant = {"Dispatch"}
             /\ "heartbeat_interval" \in DOMAIN wire.d.obj =>
                  decoded.value.d.Dispatch.heartbeat_interval = wire.d.obj.heartbeat_interval
        /\ PayloadIs("bool") =>
             decoded.ok /\ Variant = {"Boolean"} /\ decoded.value.d.Boolean = wire.d.bool
        /\ PayloadIs("int") =>
             decoded.ok /\ Variant = {"Integer"} /\ decoded.value.d.Integer = wire.d.int
        /\ (PayloadIs("str") \/ PayloadIs("null")
              \/ (PayloadIs("obj") /\ ~DispatchDecodes(wire.d.obj))) => ~decoded.ok
        /\ wire = [op |-> 10, d |-> [obj |-> [heartbeat_interval |-> 45000]]] =>
             decoded.value.d.Dispatch.heartbeat_interval = 45000
        /\ wire = [op |-> 1, d |-> [int |-> 100]] => decoded.value.d = [Integer |-> 100]
        /\ wire = [op |-> 11, d |-> [bool |-> TRUE]] => decoded.value.d = [Boolean |-> TRUE]

\* the boolean example decoded
C18_Witness ==
    /\ stage = "decoded"
    /\ wire = [op |-> 11, d |-> [bool |-> TRUE]]
    /\ decoded.ok
    /\ decoded.value.d = [Boolean |-> TRUE]

(* C19: decoding the encoding of an envelope the session builds (the       *)
(* heartbeat with its integer payload, the identify with its structured    *)
(* payload) gives back the same opcode, sequence, event type and payload   *)
(* variant with the same field values.                                     *)
C19_RoundTrip ==
    stage = "roundtrip" =>
        /\ decoded.ok
        /\ decoded.value.op = envelope.op
        /\ decoded.value.s = envelope.s
        /\ decoded.value.t = envelope.t
        /\ Variant = DOMAIN envelope.d
        /\ decoded.value.d = envelope.d

\* the identify envelope encoded and decoded again
C19_Witness ==
    /\ stage = "roundtrip"
    /\ envelope = identify_protocol
    /\ decoded.ok
    /\ decoded.value.d.Dispatch.shard = identify_shard

(* C20, as claimed: a host loop that repeats next_event until closed is    *)
(* true terminates once the stream has ended: after the end of the stream  *)
(* the session reaches closed = TRUE (or the loop ends on an error)        *)
(* instead of returning success forever with closed still FALSE.           *)
C20_Original == streamEnded ~> (closed \/ result # "Ok")

====
